---------------------------- MODULE Spec2Model ----------------------------
(***************************************************************************)
(* The dummy login handler of Tobira (scripts/auth/login-handler.py and    *)
(* util/containers/login-handler.py; the two files share check_login and   *)
(* Handler.do_POST line for line).                                         *)
(*                                                                         *)
(* Text (Python str) is a sequence of Unicode code points, binary data     *)
(* (Python bytes) a sequence of byte values 0..255.  An optional value     *)
(* (a header that may be None, the result of check_login) is a sequence    *)
(* of length 0 (None) or 1.                                                *)
(***************************************************************************)
EXTENDS Integers, Sequences, FiniteSets, TLC

VARIABLES
    DUMMY_USERS,  \* the credential table, a module global
    server,       \* the class of the server __main__ constructed (httpd)
    workload,     \* the requests the clients are going to submit, in order
    conns,        \* one record per connection made: the request and its handler
    stdout,       \* the lines written to standard output so far
    trace         \* every output call that returned, in order: <<connection, kind>>

vars == <<DUMMY_USERS, server, workload, conns, stdout, trace>>

-----------------------------------------------------------------------------
(* Bounds of the model.                                                    *)

\* The most connections the clients make in one run.
MaxRequests == 2

-----------------------------------------------------------------------------
(* Text and byte literals.                                                 *)

None == << >>
Some(x) == <<x>>

\* 'userid'
USERID_FIELD ==
    <<117, 115, 101, 114, 105, 100>>

\* 'password'
PASSWORD_FIELD ==
    <<112, 97, 115, 115, 119, 111, 114, 100>>

\* 'application/x-www-form-urlencoded'
FORM_CONTENT_TYPE ==
    <<97, 112, 112, 108, 105, 99, 97, 116, 105, 111, 110, 47, 120, 45, 119, 119, 119, 45,
      102, 111, 114, 109, 45, 117, 114, 108, 101, 110, 99, 111, 100, 101, 100>>

\* 'tobira'
SECRET ==
    <<116, 111, 98, 105, 114, 97>>

\* '/~successful-login'
ACCEL_REDIRECT ==
    <<47, 126, 115, 117, 99, 99, 101, 115, 115, 102, 117, 108, 45, 108, 111, 103, 105, 110>>

\* 'Incorrect login '
INCORRECT_LOGIN ==
    <<73, 110, 99, 111, 114, 114, 101, 99, 116, 32, 108, 111, 103, 105, 110, 32>>

\* 'Successful login of '
SUCCESSFUL_LOGIN ==
    <<83, 117, 99, 99, 101, 115, 115, 102, 117, 108, 32, 108, 111, 103, 105, 110, 32, 111,
      102, 32>>

\* the separators of the two f-strings: ':', ' (', '): '
COLON == <<58>>
OPEN_PAREN == <<32, 40>>
CLOSE_PAREN == <<41, 58, 32>>

\* 'admin'
S_admin ==
    <<97, 100, 109, 105, 110>>

\* 'sabine'
S_sabine ==
    <<115, 97, 98, 105, 110, 101>>

\* 'augustus'
S_augustus ==
    <<97, 117, 103, 117, 115, 116, 117, 115>>

\* 'Administrator'
N_admin ==
    <<65, 100, 109, 105, 110, 105, 115, 116, 114, 97, 116, 111, 114>>

\* 'Sabine Rudolfs'
N_sabine ==
    <<83, 97, 98, 105, 110, 101, 32, 82, 117, 100, 111, 108, 102, 115>>

\* 'Augustus Pagenkämper'
N_augustus ==
    <<65, 117, 103, 117, 115, 116, 117, 115, 32, 80, 97, 103, 101, 110, 107, 228, 109, 112,
      101, 114>>

\* 'ROLE_ADMIN, ROLE_USER_ADMIN, ROLE_ANONYMOUS, ROLE_USER, ROLE_SUDO'
R_admin ==
    <<82, 79, 76, 69, 95, 65, 68, 77, 73, 78, 44, 32, 82, 79, 76, 69, 95, 85, 83, 69, 82,
      95, 65, 68, 77, 73, 78, 44, 32, 82, 79, 76, 69, 95, 65, 78, 79, 78, 89, 77, 79, 85,
      83, 44, 32, 82, 79, 76, 69, 95, 85, 83, 69, 82, 44, 32, 82, 79, 76, 69, 95, 83, 85,
      68, 79>>

\* 'ROLE_USER_SABINE, ROLE_ANONYMOUS, ROLE_USER, ROLE_INSTRUCTOR, ROLE_TOBIRA_MODERATOR'
R_sabine ==
    <<82, 79, 76, 69, 95, 85, 83, 69, 82, 95, 83, 65, 66, 73, 78, 69, 44, 32, 82, 79, 76,
      69, 95, 65, 78, 79, 78, 89, 77, 79, 85, 83, 44, 32, 82, 79, 76, 69, 95, 85, 83, 69,
      82, 44, 32, 82, 79, 76, 69, 95, 73, 78, 83, 84, 82, 85, 67, 84, 79, 82, 44, 32, 82,
      79, 76, 69, 95, 84, 79, 66, 73, 82, 65, 95, 77, 79, 68, 69, 82, 65, 84, 79, 82>>

\* 'ROLE_USER_AUGUSTUS, ROLE_ANONYMOUS, ROLE_USER, ROLE_STUDENT'
R_augustus ==
    <<82, 79, 76, 69, 95, 85, 83, 69, 82, 95, 65, 85, 71, 85, 83, 84, 85, 83, 44, 32, 82,
      79, 76, 69, 95, 65, 78, 79, 78, 89, 77, 79, 85, 83, 44, 32, 82, 79, 76, 69, 95, 85,
      83, 69, 82, 44, 32, 82, 79, 76, 69, 95, 83, 84, 85, 68, 69, 78, 84>>

-----------------------------------------------------------------------------
(* Library functions the handler calls, computed as CPython computes them. *)

\* Mutant of StartsWith: the comparison is an equality (s == prefix).
ExactMatch(s, prefix) == s = prefix

\* str.startswith(prefix)
StartsWith(s, prefix) ==
    /\ Len(s) >= Len(prefix)
    /\ SubSeq(s, 1, Len(prefix)) = prefix

\* The position of the first occurrence of c in s, 0 when there is none.
Find(s, c) ==
    IF \E k \in 1..Len(s) : s[k] = c
    THEN CHOOSE k \in 1..Len(s) : s[k] = c /\ \A j \in 1..(k - 1) : s[j] # c
    ELSE 0

\* s.split(sep), sep one character
RECURSIVE Split(_, _)
Split(s, sep) ==
    LET k == Find(s, sep)
    IN  IF k = 0 THEN <<s>>
        ELSE <<SubSeq(s, 1, k - 1)>> \o Split(SubSeq(s, k + 1, Len(s)), sep)

\* s.split(sep, 1)
SplitOnce(s, sep) ==
    LET k == Find(s, sep)
    IN  IF k = 0 THEN <<s>>
        ELSE <<SubSeq(s, 1, k - 1), SubSeq(s, k + 1, Len(s))>>

\* s.replace(a, b), a and b one character
Replace(s, a, b) ==
    [k \in 1..Len(s) |-> IF s[k] = a THEN b ELSE s[k]]

\* The concatenation of a sequence of sequences (''.join, b''.join), the two
\* halves joined apart to keep the evaluation shallow.
RECURSIVE Join(_)
Join(ss) ==
    IF Len(ss) = 0 THEN << >>
    ELSE IF Len(ss) = 1 THEN ss[1]
    ELSE LET half == Len(ss) \div 2
         IN  Join(SubSeq(ss, 1, half)) \o Join(SubSeq(ss, half + 1, Len(ss)))

\* The replacement character U+FFFD that errors='replace' puts in.
REPLACEMENT == <<65533>>

\* One step of the UTF-8 decoder at position i of bs: the code point decoded
\* (cp, -1 for a malformed sequence) and the number of bytes it covers (n).
\* A malformed sequence covers its maximal well-formed prefix, as CPython's
\* decoder reports it.
Utf8Step(bs, i) ==
    LET b1 == bs[i]
        has(k) == i + k <= Len(bs)
        at(k) == bs[i + k]
        cont(k) == has(k) /\ at(k) >= 128 /\ at(k) <= 191
        lo2 == IF b1 = 224 THEN 160 ELSE IF b1 = 240 THEN 144 ELSE 128
        hi2 == IF b1 = 237 THEN 159 ELSE IF b1 = 244 THEN 143 ELSE 191
        second == has(1) /\ at(1) >= lo2 /\ at(1) <= hi2
    IN  IF b1 < 128 THEN [cp |-> b1, n |-> 1]
        ELSE IF b1 >= 194 /\ b1 <= 223 THEN
            IF cont(1) THEN [cp |-> (b1 - 192) * 64 + (at(1) - 128), n |-> 2]
            ELSE [cp |-> -1, n |-> 1]
        ELSE IF b1 >= 224 /\ b1 <= 239 THEN
            IF ~second THEN [cp |-> -1, n |-> 1]
            ELSE IF ~cont(2) THEN [cp |-> -1, n |-> 2]
            ELSE [cp |-> (b1 - 224) * 4096 + (at(1) - 128) * 64 + (at(2) - 128),
                  n |-> 3]
        ELSE IF b1 >= 240 /\ b1 <= 244 THEN
            IF ~second THEN [cp |-> -1, n |-> 1]
            ELSE IF ~cont(2) THEN [cp |-> -1, n |-> 2]
            ELSE IF ~cont(3) THEN [cp |-> -1, n |-> 3]
            ELSE [cp |-> (b1 - 240) * 262144 + (at(1) - 128) * 4096
                         + (at(2) - 128) * 64 + (at(3) - 128),
                  n |-> 4]
        ELSE [cp |-> -1, n |-> 1]

\* bytes.decode('utf-8', errors) from position i on: ok is FALSE when a
\* malformed sequence was met (errors='strict' raises UnicodeDecodeError then),
\* text is the result under errors='replace'.
RECURSIVE Utf8DecodeFrom(_, _)
Utf8DecodeFrom(bs, i) ==
    IF i > Len(bs) THEN [ok |-> TRUE, text |-> << >>]
    ELSE LET st == Utf8Step(bs, i)
             rest == Utf8DecodeFrom(bs, i + st.n)
         IN  IF st.cp = -1
             THEN [ok |-> FALSE, text |-> REPLACEMENT \o rest.text]
             ELSE [ok |-> rest.ok, text |-> <<st.cp>> \o rest.text]

\* bytes.decode('utf-8', errors).  A byte outside 128..191 always starts a
\* sequence, whatever precedes it, so a long input is decoded in two parts cut
\* at such a byte; this keeps the evaluation shallow and changes no result.
RECURSIVE Utf8Decode(_)
Utf8Decode(bs) ==
    LET starts == {k \in (Len(bs) \div 2 + 1)..Len(bs) : bs[k] < 128 \/ bs[k] > 191}
    IN  IF Len(bs) <= 8 \/ starts = {} THEN Utf8DecodeFrom(bs, 1)
        ELSE LET cut == CHOOSE k \in starts : \A j \in starts : k <= j
                 left == Utf8Decode(SubSeq(bs, 1, cut - 1))
                 right == Utf8Decode(SubSeq(bs, cut, Len(bs)))
             IN  [ok |-> left.ok /\ right.ok, text |-> left.text \o right.text]

\* str.encode(): the UTF-8 bytes of one code point, then of a text.
Utf8Bytes(cp) ==
    IF cp < 128 THEN <<cp>>
    ELSE IF cp < 2048 THEN <<192 + (cp \div 64), 128 + (cp % 64)>>
    ELSE IF cp < 65536
        THEN <<224 + (cp \div 4096), 128 + ((cp \div 64) % 64), 128 + (cp % 64)>>
    ELSE <<240 + (cp \div 262144), 128 + ((cp \div 4096) % 64),
           128 + ((cp \div 64) % 64), 128 + (cp % 64)>>

Utf8Encode(s) == Join([k \in 1..Len(s) |-> Utf8Bytes(s[k])])

\* The value of a hexadecimal digit, -1 for any other byte.
HexVal(c) ==
    IF c >= 48 /\ c <= 57 THEN c - 48
    ELSE IF c >= 65 /\ c <= 70 THEN c - 55
    ELSE IF c >= 97 /\ c <= 102 THEN c - 87
    ELSE -1

\* One item of string.split(b'%') after the first: the byte of its two leading
\* hex digits and the rest, or '%' and the item unchanged (the KeyError branch).
UnquoteItem(item) ==
    IF Len(item) >= 2 /\ HexVal(item[1]) >= 0 /\ HexVal(item[2]) >= 0
    THEN <<HexVal(item[1]) * 16 + HexVal(item[2])>> \o SubSeq(item, 3, Len(item))
    ELSE <<37>> \o item

\* urllib.parse.unquote_to_bytes(string), string a str
unquote_to_bytes(string) ==
    LET bits == Split(Utf8Encode(string), 37)
    IN  IF Len(bits) = 1 THEN Utf8Encode(string)
        ELSE bits[1] \o Join([k \in 1..(Len(bits) - 1) |-> UnquoteItem(bits[k + 1])])

\* The length of the longest prefix of s made of ASCII characters.
AsciiRun(s) ==
    IF \A k \in 1..Len(s) : s[k] <= 127 THEN Len(s)
    ELSE (CHOOSE k \in 1..Len(s) : s[k] > 127 /\ \A j \in 1..(k - 1) : s[j] <= 127) - 1

\* The loop of unquote over _asciire.split(string): every run of ASCII
\* characters is unquoted to bytes and decoded with errors='replace', the
\* characters between the runs are kept.
RECURSIVE UnquoteRuns(_)
UnquoteRuns(s) ==
    IF s = << >> THEN << >>
    ELSE LET n == AsciiRun(s)
         IN  IF n = 0 THEN <<s[1]>> \o UnquoteRuns(Tail(s))
             ELSE Utf8Decode(unquote_to_bytes(SubSeq(s, 1, n))).text
                  \o UnquoteRuns(SubSeq(s, n + 1, Len(s)))

\* urllib.parse.unquote(string, encoding='utf-8', errors='replace')
unquote(string) ==
    IF Find(string, 37) = 0 THEN string ELSE UnquoteRuns(string)

\* One name_value of parse_qsl's loop, with keep_blank_values and
\* strict_parsing False: the (name, value) pairs it appends, none or one.
ParsePair(name_value) ==
    LET nv == SplitOnce(name_value, 61)
    IN  IF name_value = << >> THEN << >>
        ELSE IF Len(nv) # 2 THEN << >>
        ELSE IF Len(nv[2]) = 0 THEN << >>
        ELSE << <<unquote(Replace(nv[1], 43, 32)), unquote(Replace(nv[2], 43, 32))>> >>

\* urllib.parse.parse_qsl(qs): the list of (name, value) pairs
parse_qsl(qs) ==
    LET query_args == IF qs = << >> THEN << >> ELSE Split(qs, 38)
    IN  Join([k \in 1..Len(query_args) |-> ParsePair(query_args[k])])

\* The values of name among pairs, in order.
RECURSIVE ValuesOf(_, _)
ValuesOf(pairs, name) ==
    IF pairs = << >> THEN << >>
    ELSE (IF Head(pairs)[1] = name THEN <<Head(pairs)[2]>> ELSE << >>)
         \o ValuesOf(Tail(pairs), name)

\* urllib.parse.parse_qs(qs): the dict from each name to the list of its values
parse_qs(qs) ==
    LET pairs == parse_qsl(qs)
        names == {pairs[k][1] : k \in 1..Len(pairs)}
    IN  [name \in names |-> ValuesOf(pairs, name)]

\* One digit of the base64 alphabet.
B64Char(v) ==
    IF v < 26 THEN 65 + v
    ELSE IF v < 52 THEN 97 + (v - 26)
    ELSE IF v < 62 THEN 48 + (v - 52)
    ELSE IF v = 62 THEN 43
    ELSE 47

\* The four digits of the k-th group of three bytes of bs; the last group may
\* hold one or two bytes and is padded with '='.
B64Group(bs, k) ==
    LET b1 == bs[3 * k - 2]
        n == Len(bs) - (3 * k - 3)
        b2 == IF n >= 2 THEN bs[3 * k - 1] ELSE 0
        b3 == IF n >= 3 THEN bs[3 * k] ELSE 0
    IN  << B64Char(b1 \div 4),
           B64Char((b1 % 4) * 16 + (b2 \div 16)),
           IF n >= 2 THEN B64Char((b2 % 16) * 4 + (b3 \div 64)) ELSE 61,
           IF n >= 3 THEN B64Char(b3 % 64) ELSE 61 >>

\* base64.b64encode(bs)
b64encode(bs) ==
    Join([k \in 1..((Len(bs) + 2) \div 3) |-> B64Group(bs, k)])

\* b64 = lambda s: base64.b64encode(s.encode()).decode()
b64(s) == Utf8Decode(b64encode(Utf8Encode(s))).text

\* The characters int() strips from both ends of its argument: the blanks
\* \t \n \v \f \r and ' ', and U+0085 and U+00A0.  (U+001C..U+001F are not
\* stripped, although str.isspace() holds of them.)
IsSpace(c) == c \in {9, 10, 11, 12, 13, 32, 133, 160}

RECURSIVE Strip(_)
Strip(s) ==
    IF s = << >> THEN s
    ELSE IF IsSpace(s[1]) THEN Strip(Tail(s))
    ELSE IF IsSpace(s[Len(s)]) THEN Strip(SubSeq(s, 1, Len(s) - 1))
    ELSE s

\* sys.get_int_max_str_digits(): int() refuses a literal of more digits.
MAX_STR_DIGITS == 4300

\* The value of a string of digits and underscores, most significant first.
RECURSIVE Decimal(_, _)
Decimal(digits, acc) ==
    IF digits = << >> THEN acc
    ELSE Decimal(Tail(digits), IF Head(digits) = 95 THEN acc
                               ELSE acc * 10 + (Head(digits) - 48))

\* digits without its leading zeros and underscores (they add nothing to the
\* value).
Significant(digits) ==
    LET rest == {k \in 1..Len(digits) : digits[k] \notin {48, 95}}
    IN  IF rest = {} THEN << >>
        ELSE SubSeq(digits, CHOOSE k \in rest : \A j \in rest : k <= j, Len(digits))

\* int(x) of a header value: None raises TypeError; a string is a decimal
\* literal (blanks around it, a sign, digits with single underscores between
\* them, at most MAX_STR_DIGITS digits) or raises ValueError.  The value is
\* computed for literals within the range of the integers of the checker.
IntOf(x) ==
    IF x = None THEN [ok |-> FALSE, error |-> "TypeError", value |-> 0]
    ELSE
        LET s == Strip(x[1])
            signed == s # << >> /\ s[1] \in {43, 45}
            digits == IF signed THEN Tail(s) ELSE s
            wellFormed ==
                /\ digits # << >>
                /\ \A k \in 1..Len(digits) : digits[k] \in (48..57) \cup {95}
                /\ digits[1] # 95 /\ digits[Len(digits)] # 95
                /\ \A k \in 1..(Len(digits) - 1) : ~(digits[k] = 95 /\ digits[k + 1] = 95)
                /\ Cardinality({k \in 1..Len(digits) : digits[k] # 95}) <= MAX_STR_DIGITS
            magnitude == Decimal(Significant(digits), 0)
        IN  IF wellFormed
            THEN [ok |-> TRUE, error |-> "",
                  value |-> IF signed /\ s[1] = 45 THEN -magnitude ELSE magnitude]
            ELSE [ok |-> FALSE, error |-> "ValueError", value |-> 0]

-----------------------------------------------------------------------------
(* The requests the clients send.                                          *)

\* 'application/json'
CT_json ==
    <<97, 112, 112, 108, 105, 99, 97, 116, 105, 111, 110, 47, 106, 115, 111, 110>>

\* 'Application/X-WWW-Form-Urlencoded'
CT_upper ==
    <<65, 112, 112, 108, 105, 99, 97, 116, 105, 111, 110, 47, 88, 45, 87, 87, 87, 45, 70,
      111, 114, 109, 45, 85, 114, 108, 101, 110, 99, 111, 100, 101, 100>>

\* 'application/x-www-form-urlencode'
CT_truncated ==
    <<97, 112, 112, 108, 105, 99, 97, 116, 105, 111, 110, 47, 120, 45, 119, 119, 119, 45,
      102, 111, 114, 109, 45, 117, 114, 108, 101, 110, 99, 111, 100, 101>>

\* '; charset=utf-8'
CHARSET_SUFFIX ==
    <<59, 32, 99, 104, 97, 114, 115, 101, 116, 61, 117, 116, 102, 45, 56>>

\* '-v2'
VERSION_SUFFIX ==
    <<45, 118, 50>>

\* b'nobody'
U_nobody ==
    <<110, 111, 98, 111, 100, 121>>

\* b'Admin'
U_Admin ==
    <<65, 100, 109, 105, 110>>

\* b'wrong'
P_wrong ==
    <<119, 114, 111, 110, 103>>

\* b'Tobira'
P_Tobira ==
    <<84, 111, 98, 105, 114, 97>>

\* b'tobir%61'
P_escaped ==
    <<116, 111, 98, 105, 114, 37, 54, 49>>

\* b'%zz'
P_bad_escape ==
    <<37, 122, 122>>

\* b'tobir\xff'
P_invalid_utf8 ==
    <<116, 111, 98, 105, 114, 255>>

\* b'ad+min'
U_plus ==
    <<97, 100, 43, 109, 105, 110>>

\* b'%C3%A4'
U_escaped_auml ==
    <<37, 67, 51, 37, 65, 52>>

\* b'%FF'
U_escaped_ff ==
    <<37, 70, 70>>

\* b'a%0Ab'
U_two_lines ==
    <<97, 37, 48, 65, 98>>

\* b'admin%0ASuccessful+login+of+admin'
U_admin_and_more ==
    <<97, 100, 109, 105, 110, 37, 48, 65, 83, 117, 99, 99, 101, 115, 115, 102, 117,
      108, 43, 108, 111, 103, 105, 110, 43, 111, 102, 43, 97, 100, 109, 105, 110>>

\* b'tobira%0A'
P_tobira_line_feed ==
    <<116, 111, 98, 105, 114, 97, 37, 48, 65>>

\* b'w\nx'
P_raw_line_feed ==
    <<119, 10, 120>>

\* b'%0A'
ESCAPED_LINE_FEED ==
    <<37, 48, 65>>

\* A password that unquotes to a line feed followed by the line of a
\* successful login of admin.
P_forged ==
    ESCAPED_LINE_FEED
    \o Replace(SUCCESSFUL_LOGIN \o S_admin \o OPEN_PAREN \o N_admin \o CLOSE_PAREN
               \o R_admin, 32, 43)

\* 'abc'
CL_not_a_number ==
    <<97, 98, 99>>

\* '-1'
CL_minus_one ==
    <<45, 49>>

\* '-5'
CL_minus_five ==
    <<45, 53>>

\* The bytes of a text of ASCII characters are its code points.
EQ == <<61>>
AMP == <<38>>

\* The body 'userid=<u>&password=<p>' and its one-field parts.
UseridField(u) == USERID_FIELD \o EQ \o u
PasswordField(p) == PASSWORD_FIELD \o EQ \o p
Form(u, p) == UseridField(u) \o AMP \o PasswordField(p)

\* str(n) for n >= 0
RECURSIVE DecimalText(_)
DecimalText(n) ==
    IF n < 10 THEN <<48 + n>> ELSE DecimalText(n \div 10) \o <<48 + (n % 10)>>

Request(content_type, content_length, body) ==
    [content_type |-> content_type, content_length |-> content_length, body |-> body]

\* A well-formed POST of body: the form content type, the exact length.
PostForm(body) ==
    Request(Some(FORM_CONTENT_TYPE), Some(DecimalText(Len(body))), body)

UserIds == {S_admin, S_sabine, S_augustus, U_nobody, U_Admin, << >>}
Passwords == {SECRET, P_wrong, P_Tobira, << >>}

\* userid=u&password=p for every u and p above
CredentialBodies == {Form(u, p) : u \in UserIds, p \in Passwords}

\* repeated, missing, reordered, escaped and undecodable fields, and fields
\* with a line feed in them
SpecialBodies ==
    { UseridField(S_admin) \o AMP \o UseridField(S_sabine) \o AMP \o PasswordField(SECRET),
      UseridField(U_nobody) \o AMP \o UseridField(S_admin) \o AMP \o PasswordField(SECRET),
      Form(S_admin, SECRET) \o AMP \o PasswordField(P_wrong),
      PasswordField(P_wrong) \o AMP \o Form(S_admin, SECRET),
      PasswordField(SECRET) \o AMP \o UseridField(S_sabine),
      UseridField(S_admin),
      PasswordField(SECRET),
      USERID_FIELD \o AMP \o PasswordField(SECRET),
      << >>,
      Form(S_admin, P_escaped),
      Form(S_admin, P_bad_escape),
      Form(S_admin, P_invalid_utf8),
      Form(U_plus, SECRET),
      Form(U_escaped_auml, SECRET),
      Form(U_escaped_ff, SECRET),
      Form(U_two_lines, P_wrong),
      Form(U_admin_and_more, P_wrong),
      Form(S_admin, P_tobira_line_feed),
      Form(S_admin, P_raw_line_feed),
      Form(U_nobody, P_forged) }

ContentTypes ==
    { None, Some(FORM_CONTENT_TYPE), Some(FORM_CONTENT_TYPE \o CHARSET_SUFFIX),
      Some(FORM_CONTENT_TYPE \o VERSION_SUFFIX), Some(CT_json), Some(CT_upper),
      Some(CT_truncated), Some(<< >>) }

\* The Content-Length values sent with a body of n bytes: none, not a number,
\* exact, too short (the body is cut), too long (the read waits for the
\* client to close), -1 (the read is to the end of the stream), another
\* negative number, the exact length between blanks, and the exact length
\* followed by U+001F.
ContentLengths(n) ==
    { None, Some(CL_not_a_number), Some(CL_minus_one), Some(CL_minus_five),
      Some(DecimalText(n)), Some(DecimalText(n - 2)), Some(DecimalText(n + 4)),
      Some(<<32>> \o DecimalText(n) \o <<9>>), Some(DecimalText(n) \o <<31>>) }

RequestPool ==
    {PostForm(b) : b \in CredentialBodies \cup SpecialBodies}
    \cup {Request(ct, Some(DecimalText(Len(b))), b) :
            ct \in ContentTypes,
            b \in {Form(S_admin, SECRET), Form(S_admin, P_wrong), UseridField(S_admin)}}
    \cup {Request(Some(FORM_CONTENT_TYPE), cl, Form(S_augustus, SECRET)) :
            cl \in ContentLengths(Len(Form(S_augustus, SECRET)))}
    \cup {Request(None, None, Form(S_admin, SECRET))}

\* The requests of the runs with several connections: the same user with the
\* right password, with a wrong one and with one that prints two lines, a
\* request answered 400, one that ends in an exception and one whose read
\* waits for the client.
SessionPool ==
    { PostForm(Form(S_admin, SECRET)),
      PostForm(Form(S_admin, P_wrong)),
      PostForm(Form(S_admin, P_tobira_line_feed)),
      Request(Some(CT_json), Some(DecimalText(Len(Form(S_admin, SECRET)))),
              Form(S_admin, SECRET)),
      Request(Some(FORM_CONTENT_TYPE), None, Form(S_admin, SECRET)),
      Request(Some(FORM_CONTENT_TYPE), Some(CL_minus_one), Form(S_admin, SECRET)) }

RECURSIVE SeqsOf(_, _)
SeqsOf(S, n) ==
    IF n = 0 THEN {<< >>}
    ELSE {Append(w, r) : w \in SeqsOf(S, n - 1), r \in S}

\* One request of any kind, or up to MaxRequests requests of the session pool.
Workloads ==
    {<<r>> : r \in RequestPool}
    \cup UNION {SeqsOf(SessionPool, n) : n \in 2..MaxRequests}

-----------------------------------------------------------------------------
(* The credential table and the login logic.                               *)

\* DUMMY_USERS as the module defines it: user id -> [display name, roles]
DummyUsersLiteral ==
    (S_admin :> <<N_admin, R_admin>>)
    @@ (S_sabine :> <<N_sabine, R_sabine>>)
    @@ (S_augustus :> <<N_augustus, R_augustus>>)

\* check_login(userid, password): [userid, display_name, roles] or None
check_login(userid, password) ==
    IF password = SECRET /\ userid \in DOMAIN DUMMY_USERS
    THEN Some(<<userid, DUMMY_USERS[userid][1], DUMMY_USERS[userid][2]>>)
    ELSE None

\* http.HTTPStatus
BAD_REQUEST == 400
FORBIDDEN == 403
NO_CONTENT == 204

-----------------------------------------------------------------------------
(* Connections and the server loop.                                        *)

Conns == 1..Len(conns)

\* A connection a client has made: it waits in the listen backlog until the
\* server accepts it and runs a Handler on it.
NewConn(request) ==
    [ request |-> request,
      eof |-> FALSE,          \* the client has shut its sending side down
      closed |-> FALSE,       \* the client has closed the connection
      pc |-> "backlog",
      length_read |-> FALSE,  \* self.headers["content-length"] was looked up
      length |-> 0,           \* length, once int() has returned it
      body_read |-> FALSE,    \* self.rfile.read returned
      vars |-> << >>,
      parsed |-> FALSE,       \* vars holds the result of parse_qs
      login_checked |-> FALSE,
      lines |-> {},           \* the numbers of the stdout lines its print wrote
      userid |-> << >>,
      password |-> << >>,
      user_data |-> None,
      status |-> << >>,       \* the codes given to send_response, in order
      headers |-> << >>,      \* the pairs given to send_header, in order
      ended |-> 0,            \* the number of calls of end_headers that returned
      error |-> "" ]          \* the exception do_POST ended with, if any

\* conns with the fields of connection i that changes names replaced.
Set(i, changes) == [conns EXCEPT ![i] = changes @@ @]

Emit(i, kinds) == trace \o [k \in 1..Len(kinds) |-> <<i, kinds[k]>>]

\* A handler is running on connection i.
Active(i) == conns[i].pc \notin {"backlog", "done"}

\* Mutant of ServerIdle: a server with socketserver.ThreadingMixIn, which
\* starts a handler for a connection whatever the other handlers are doing.
ServerThreaded == TRUE

\* DevTCPServer and UnixSocketHttpServer derive from TCPServer and
\* UnixStreamServer without a threading or forking mix-in: serve_forever
\* takes the next connection only after the handler of the last has returned.
ServerIdle == \A j \in Conns : ~Active(j)

\* A client connects and sends its request.
Submit ==
    /\ Len(conns) < Len(workload)
    /\ conns' = Append(conns, NewConn(workload[Len(conns) + 1]))
    /\ UNCHANGED <<DUMMY_USERS, server, workload, stdout, trace>>

\* httpd.serve_forever(): the oldest waiting connection is accepted and its
\* request line and headers are parsed; do_POST starts.
Accept(i) ==
    /\ ServerIdle
    /\ conns[i].pc = "backlog"
    /\ \A j \in 1..(i - 1) : conns[j].pc # "backlog"
    /\ conns' = Set(i, [pc |-> "content_type"])
    /\ UNCHANGED <<DUMMY_USERS, server, workload, stdout, trace>>

-----------------------------------------------------------------------------
(* Handler.do_POST, block by block.                                        *)

\* content_type is None or not content_type.startswith(...)
BadContentType(content_type) ==
    \/ content_type = None
    \/ ~StartsWith(content_type[1], FORM_CONTENT_TYPE)

\* Mutant of CheckContentType: the 'return' after the 400 is missing, so the
\* handler goes on to read the body.
CheckContentTypeNoReturn(i) ==
    /\ conns[i].pc = "content_type"
    /\ IF BadContentType(conns[i].request.content_type)
       THEN /\ conns' = Set(i, [status |-> Append(conns[i].status, BAD_REQUEST),
                                ended |-> conns[i].ended + 1,
                                pc |-> "content_length"])
            /\ trace' = Emit(i, <<"send_response", "end_headers">>)
       ELSE /\ conns' = Set(i, [pc |-> "content_length"])
            /\ UNCHANGED trace
    /\ UNCHANGED <<DUMMY_USERS, server, workload, stdout>>

\* The content-type check: 400 and return, or go on.
CheckContentType(i) ==
    /\ conns[i].pc = "content_type"
    /\ IF BadContentType(conns[i].request.content_type)
       THEN /\ conns' = Set(i, [status |-> Append(conns[i].status, BAD_REQUEST),
                                pc |-> "end_headers"])
            /\ trace' = Emit(i, <<"send_response">>)
       ELSE /\ conns' = Set(i, [pc |-> "content_length"])
            /\ UNCHANGED trace
    /\ UNCHANGED <<DUMMY_USERS, server, workload, stdout>>

\* length = int(self.headers["content-length"]).  An exception of int() ends
\* do_POST: the server closes the connection, nothing was sent.
ReadLength(i) ==
    /\ conns[i].pc = "content_length"
    /\ LET length == IntOf(conns[i].request.content_length)
       IN  conns' =
             IF ~length.ok
             THEN Set(i, [length_read |-> TRUE, error |-> length.error, pc |-> "done"])
             ELSE Set(i, [length_read |-> TRUE, length |-> length.value,
                          pc |-> "read_body"])
    /\ UNCHANGED <<DUMMY_USERS, server, workload, stdout, trace>>

\* self.rfile.read(length) would wait: the stream holds fewer than length
\* bytes (all of it is asked for when length is -1) and is still open.
ReadWaits(i) ==
    /\ conns[i].length = -1 \/ conns[i].length > Len(conns[i].request.body)
    /\ ~conns[i].eof

\* self.rfile.read(length) once it returns, length -1 or more
ReadResult(i) ==
    LET length == conns[i].length
        body == conns[i].request.body
    IN  IF length = -1 \/ length > Len(body) THEN body ELSE SubSeq(body, 1, length)

\* The client shuts down its sending side.  Only rfile.read observes it, so
\* it is modelled where a read is waiting for it.
ClientClose(i) ==
    /\ conns[i].pc = "read_body"
    /\ ReadWaits(i)
    /\ conns' = Set(i, [eof |-> TRUE])
    /\ UNCHANGED <<DUMMY_USERS, server, workload, stdout, trace>>

\* The client closes the connection (close()), at any time after it has sent
\* its request: before the server accepts it, while the handler runs or
\* waits in rfile.read.  What was sent stays readable and is followed by the
\* end of the stream.
ClientDisconnect(i) ==
    /\ conns[i].pc # "done"
    /\ ~conns[i].closed
    /\ conns' = Set(i, [eof |-> TRUE, closed |-> TRUE])
    /\ UNCHANGED <<DUMMY_USERS, server, workload, stdout, trace>>

\* body = self.rfile.read(length); vars = urllib.parse.parse_qs(body.decode()).
\* read raises ValueError at once for a length below -1, decode raises
\* UnicodeDecodeError for a body that is not UTF-8: do_POST ends, the server
\* closes the connection, nothing was sent.
ReadBody(i) ==
    /\ conns[i].pc = "read_body"
    /\ ~ReadWaits(i)
    /\ LET text == Utf8Decode(ReadResult(i))
       IN  conns' =
             IF conns[i].length < -1
             THEN Set(i, [error |-> "ValueError", pc |-> "done"])
             ELSE IF ~text.ok
             THEN Set(i, [body_read |-> TRUE, error |-> "UnicodeDecodeError",
                          pc |-> "done"])
             ELSE Set(i, [body_read |-> TRUE, vars |-> parse_qs(text.text),
                          parsed |-> TRUE, pc |-> "check_fields"])
    /\ UNCHANGED <<DUMMY_USERS, server, workload, stdout, trace>>

\* USERID_FIELD in vars and PASSWORD_FIELD in vars
FieldsPresent(v) ==
    USERID_FIELD \in DOMAIN v /\ PASSWORD_FIELD \in DOMAIN v

\* Mutant of CheckFields: the missing-field answer is FORBIDDEN.
CheckFieldsForbidden(i) ==
    /\ conns[i].pc = "check_fields"
    /\ IF ~FieldsPresent(conns[i].vars)
       THEN /\ conns' = Set(i, [status |-> Append(conns[i].status, FORBIDDEN),
                                pc |-> "end_headers"])
            /\ trace' = Emit(i, <<"send_response">>)
       ELSE /\ conns' = Set(i, [pc |-> "check_login"])
            /\ UNCHANGED trace
    /\ UNCHANGED <<DUMMY_USERS, server, workload, stdout>>

\* The field-presence check: 400 and return, or go on.
CheckFields(i) ==
    /\ conns[i].pc = "check_fields"
    /\ IF ~FieldsPresent(conns[i].vars)
       THEN /\ conns' = Set(i, [status |-> Append(conns[i].status, BAD_REQUEST),
                                pc |-> "end_headers"])
            /\ trace' = Emit(i, <<"send_response">>)
       ELSE /\ conns' = Set(i, [pc |-> "check_login"])
            /\ UNCHANGED trace
    /\ UNCHANGED <<DUMMY_USERS, server, workload, stdout>>

\* Mutant of Authenticate: the last value of a repeated field is taken
\* (vars[...][-1]).
AuthenticateLastValue(i) ==
    /\ conns[i].pc = "check_login"
    /\ LET userids == conns[i].vars[USERID_FIELD]
           passwords == conns[i].vars[PASSWORD_FIELD]
           userid == userids[Len(userids)]
           password == passwords[Len(passwords)]
       IN  conns' = Set(i, [userid |-> userid, password |-> password,
                            user_data |-> check_login(userid, password),
                            login_checked |-> TRUE, pc |-> "print"])
    /\ UNCHANGED <<DUMMY_USERS, server, workload, stdout, trace>>

\* Mutant of Authenticate: a failed attempt on a known user removes the user
\* from the table (a lock-out).
AuthenticateLockout(i) ==
    /\ conns[i].pc = "check_login"
    /\ LET userid == conns[i].vars[USERID_FIELD][1]
           password == conns[i].vars[PASSWORD_FIELD][1]
           user_data == check_login(userid, password)
       IN  /\ conns' = Set(i, [userid |-> userid, password |-> password,
                               user_data |-> user_data,
                               login_checked |-> TRUE, pc |-> "print"])
           /\ DUMMY_USERS' =
                IF user_data = None
                THEN [u \in DOMAIN DUMMY_USERS \ {userid} |-> DUMMY_USERS[u]]
                ELSE DUMMY_USERS
    /\ UNCHANGED <<server, workload, stdout, trace>>

\* userid = vars[USERID_FIELD][0]; password = vars[PASSWORD_FIELD][0];
\* user_data = check_login(userid, password)
Authenticate(i) ==
    /\ conns[i].pc = "check_login"
    /\ LET userid == conns[i].vars[USERID_FIELD][1]
           password == conns[i].vars[PASSWORD_FIELD][1]
       IN  conns' = Set(i, [userid |-> userid, password |-> password,
                            user_data |-> check_login(userid, password),
                            login_checked |-> TRUE, pc |-> "print"])
    /\ UNCHANGED <<DUMMY_USERS, server, workload, stdout, trace>>

\* f"Incorrect login {userid}:{password}"
IncorrectLine(userid, password) ==
    INCORRECT_LOGIN \o userid \o COLON \o password

\* f"Successful login of {username} ({display_name}): {roles}"
SuccessfulLine(user_data) ==
    SUCCESSFUL_LOGIN \o user_data[1] \o OPEN_PAREN \o user_data[2]
    \o CLOSE_PAREN \o user_data[3]

\* The end print() puts after its text: '\n'
LINE_FEED == 10

\* The lines print(text) adds to standard output: text is written as it is,
\* followed by a line feed, so every line feed in text ends a line too.
PrintedLines(text) == Split(text, LINE_FEED)

\* Mutant of LogLogin: only the failure branch prints.
LogLoginFailureOnly(i) ==
    /\ conns[i].pc = "print"
    /\ IF conns[i].user_data = None
       THEN LET written == PrintedLines(IncorrectLine(conns[i].userid,
                                                      conns[i].password))
            IN  /\ stdout' = stdout \o written
                /\ trace' = Emit(i, <<"print">>)
                /\ conns' = Set(i, [lines |-> (Len(stdout) + 1)..(Len(stdout) + Len(written)),
                                    pc |-> "send_response"])
       ELSE /\ conns' = Set(i, [pc |-> "send_response"])
            /\ UNCHANGED <<stdout, trace>>
    /\ UNCHANGED <<DUMMY_USERS, server, workload>>

\* The print of either branch of 'if user_data is None'.
LogLogin(i) ==
    /\ conns[i].pc = "print"
    /\ LET written == PrintedLines(IF conns[i].user_data = None
                                   THEN IncorrectLine(conns[i].userid, conns[i].password)
                                   ELSE SuccessfulLine(conns[i].user_data[1]))
       IN  /\ stdout' = stdout \o written
           /\ conns' = Set(i, [lines |-> (Len(stdout) + 1)..(Len(stdout) + Len(written)),
                               pc |-> "send_response"])
    /\ trace' = Emit(i, <<"print">>)
    /\ UNCHANGED <<DUMMY_USERS, server, workload>>

Header(name, value) == [name |-> name, value |-> value]

\* Mutant of LoginHeaders: the display name and the roles change places.
LoginHeadersSwapped(user_data) ==
    << Header("x-tobira-username", b64(user_data[1])),
       Header("x-tobira-user-display-name", b64(user_data[3])),
       Header("x-tobira-user-roles", b64(user_data[2])),
       Header("x-accel-redirect", ACCEL_REDIRECT) >>

\* The four send_header calls of the success branch.
LoginHeaders(user_data) ==
    << Header("x-tobira-username", b64(user_data[1])),
       Header("x-tobira-user-display-name", b64(user_data[2])),
       Header("x-tobira-user-roles", b64(user_data[3])),
       Header("x-accel-redirect", ACCEL_REDIRECT) >>

\* send_response(FORBIDDEN), or send_response(NO_CONTENT) and the headers.
SendResponse(i) ==
    /\ conns[i].pc = "send_response"
    /\ IF conns[i].user_data = None
       THEN /\ conns' = Set(i, [status |-> Append(conns[i].status, FORBIDDEN),
                                pc |-> "end_headers"])
            /\ trace' = Emit(i, <<"send_response">>)
       ELSE /\ conns' = Set(i, [status |-> Append(conns[i].status, NO_CONTENT),
                                headers |-> conns[i].headers
                                            \o LoginHeaders(conns[i].user_data[1]),
                                pc |-> "end_headers"])
            /\ trace' = Emit(i, <<"send_response", "send_header", "send_header",
                                  "send_header", "send_header">>)
    /\ UNCHANGED <<DUMMY_USERS, server, workload, stdout>>

\* The write of end_headers fails: a Unix stream socket refuses a write once
\* its peer has closed (EPIPE), a TCP socket takes the first write after the
\* peer's close.
WriteFails(i) ==
    server = "UnixSocketHttpServer" /\ conns[i].closed

\* self.end_headers(), after which do_POST returns.  It writes the status
\* line and the headers, buffered until now, to the connection; when the
\* write raises BrokenPipeError do_POST ends with it and nothing was sent.
EndHeaders(i) ==
    /\ conns[i].pc = "end_headers"
    /\ IF WriteFails(i)
       THEN /\ conns' = Set(i, [error |-> "BrokenPipeError", pc |-> "done"])
            /\ UNCHANGED trace
       ELSE /\ conns' = Set(i, [ended |-> conns[i].ended + 1, pc |-> "done"])
            /\ trace' = Emit(i, <<"end_headers">>)
    /\ UNCHANGED <<DUMMY_USERS, server, workload, stdout>>

-----------------------------------------------------------------------------

(* Start of the program.                                                   *)

\* 'Dummy login handler started...'
BANNER_STARTED ==
    <<68, 117, 109, 109, 121, 32, 108, 111, 103, 105, 110, 32, 104, 97, 110, 100, 108, 101,
      114, 32, 115, 116, 97, 114, 116, 101, 100, 46, 46, 46>>

\* 'Dummy login handler listening on port '
LISTENING_ON_PORT ==
    <<68, 117, 109, 109, 121, 32, 108, 111, 103, 105, 110, 32, 104, 97, 110, 100, 108, 101,
      114, 32, 108, 105, 115, 116, 101, 110, 105, 110, 103, 32, 111, 110, 32, 112, 111, 114,
      116, 32>>

\* 'Dummy login handler listening on socket '
LISTENING_ON_SOCKET ==
    <<68, 117, 109, 109, 121, 32, 108, 111, 103, 105, 110, 32, 104, 97, 110, 100, 108, 101,
      114, 32, 108, 105, 115, 116, 101, 110, 105, 110, 103, 32, 111, 110, 32, 115, 111, 99,
      107, 101, 116, 32>>

\* '...'
ELLIPSIS ==
    <<46, 46, 46>>

\* a socket path given as sys.argv[1]: '/tmp/login.sock'
SOCKET_PATH ==
    <<47, 116, 109, 112, 47, 108, 111, 103, 105, 110, 46, 115, 111, 99, 107>>

\* port = 3091
PORT == 3091

\* __main__: the server constructed and the line printed before
\* serve_forever, of scripts/auth, and of util/containers started without
\* and with a socket path.
Programs ==
    { [httpd |-> "DevTCPServer", banner |-> BANNER_STARTED],
      [httpd |-> "DevTCPServer",
       banner |-> LISTENING_ON_PORT \o DecimalText(PORT) \o ELLIPSIS],
      [httpd |-> "UnixSocketHttpServer",
       banner |-> LISTENING_ON_SOCKET \o SOCKET_PATH \o ELLIPSIS] }

Init ==
    /\ DUMMY_USERS = DummyUsersLiteral
    /\ workload \in Workloads
    /\ conns = << >>
    /\ \E program \in Programs :
         /\ server = program.httpd
         /\ stdout = PrintedLines(program.banner)
    /\ trace = << >>

Next ==
    \/ Submit
    \/ \E i \in Conns : Accept(i)
    \/ \E i \in Conns : ReadLength(i)
    \/ \E i \in Conns : ClientClose(i)
    \/ \E i \in Conns : ClientDisconnect(i)
    \/ \E i \in Conns : CheckContentType(i)
    \/ \E i \in Conns : ReadBody(i)
    \/ \E i \in Conns : CheckFields(i)
    \/ \E i \in Conns : Authenticate(i)
    \/ \E i \in Conns : LogLogin(i)
    \/ \E i \in Conns : SendResponse(i)
    \/ \E i \in Conns : EndHeaders(i)

Spec == Init /\ [][Next]_vars

-----------------------------------------------------------------------------
(* Properties.                                                             *)

\* do_POST has returned (or ended with an exception) on connection i.
Done(i) == conns[i].pc = "done"

\* The handler of connection i sent code, and no other status.
Answered(i, code) == conns[i].status = <<code>>

\* The client of connection i has closed a Unix socket connection: nothing
\* can be written to it any more.
ClientGone(i) == server = "UnixSocketHttpServer" /\ conns[i].closed

\* The response of connection i went out, whole and once; or, for a client
\* that is gone, the write failed and nothing went out.
Written(i) ==
    IF ClientGone(i)
    THEN conns[i].ended = 0 /\ conns[i].error = "BrokenPipeError"
    ELSE conns[i].ended = 1 /\ conns[i].error = ""

\* The numbers of the lines of standard output connection i wrote.
LineNumbers(i) == conns[i].lines

\* The lines connection i wrote, in order.
LinesOf(i) ==
    LET ks == LineNumbers(i)
        before == Cardinality({k \in 1..Len(stdout) : \A j \in ks : k < j})
    IN  [n \in 1..Cardinality(ks) |-> stdout[before + n]]

\* The text whose lines are ls: a line feed between every two of them.
Unlines(ls) ==
    Join([n \in 1..Len(ls) |-> IF n = 1 THEN ls[n] ELSE <<10>> \o ls[n]])

\* The number of line feeds in text.
LineFeeds(text) == Cardinality({k \in 1..Len(text) : text[k] = 10})

\* The value of a base64 digit, -1 for any other character.
B64Value(c) ==
    IF c >= 65 /\ c <= 90 THEN c - 65
    ELSE IF c >= 97 /\ c <= 122 THEN c - 71
    ELSE IF c >= 48 /\ c <= 57 THEN c + 4
    ELSE IF c = 43 THEN 62
    ELSE IF c = 47 THEN 63
    ELSE -1

\* The bytes of the k-th group of four digits of s.
B64GroupBytes(s, k) ==
    LET d(j) == s[4 * k - 4 + j]
        v(j) == IF d(j) = 61 THEN 0 ELSE B64Value(d(j))
        b1 == v(1) * 4 + (v(2) \div 16)
        b2 == (v(2) % 16) * 16 + (v(3) \div 4)
        b3 == (v(3) % 4) * 64 + v(4)
    IN  IF d(3) = 61 THEN <<b1>> ELSE IF d(4) = 61 THEN <<b1, b2>> ELSE <<b1, b2, b3>>

\* s is padded standard base64: groups of four digits, '=' only at the end of
\* the last group.
IsBase64(s) ==
    /\ Len(s) % 4 = 0
    /\ \A k \in 1..Len(s) :
         \/ B64Value(s[k]) >= 0
         \/ /\ s[k] = 61
            /\ k >= Len(s) - 1
            /\ k = Len(s) - 1 => s[Len(s)] = 61

\* The bytes a base64 decoder reads from s; <<-1>> when s is not base64.
B64Decode(s) ==
    IF ~IsBase64(s) THEN <<-1>>
    ELSE Join([k \in 1..(Len(s) \div 4) |-> B64GroupBytes(s, k)])

RepeatedAdminFirst ==
    UseridField(S_admin) \o AMP \o UseridField(S_sabine) \o AMP \o PasswordField(SECRET)
RepeatedAdminLast ==
    UseridField(U_nobody) \o AMP \o UseridField(S_admin) \o AMP \o PasswordField(SECRET)

\* C1: the status a request is answered with is 204 if and only if its Content-Type starts with
\* the form content type, the parsed body holds both fields, the first
\* password value is 'tobira' and the first userid value is a key of the
\* table; later values of a repeated field do not count.
C1_NoContentIffFirstValuesMatch ==
    \A i \in Conns : Done(i) =>
        LET c == conns[i]
            accepted ==
                /\ c.request.content_type # None
                /\ StartsWith(c.request.content_type[1], FORM_CONTENT_TYPE)
                /\ c.parsed
                /\ USERID_FIELD \in DOMAIN c.vars
                /\ PASSWORD_FIELD \in DOMAIN c.vars
                /\ c.vars[PASSWORD_FIELD][1] = SECRET
                /\ c.vars[USERID_FIELD][1] \in DOMAIN DummyUsersLiteral
        IN  /\ Answered(i, NO_CONTENT) <=> accepted
            /\ accepted => Written(i)
            /\ ~accepted => NO_CONTENT \notin {c.status[k] : k \in 1..Len(c.status)}
            /\ c.request = PostForm(RepeatedAdminFirst) =>
                 /\ Answered(i, NO_CONTENT)
                 /\ B64Decode(c.headers[1].value) = S_admin
            /\ c.request = PostForm(RepeatedAdminLast) => Answered(i, FORBIDDEN)

C1_Witness ==
    \E i \in Conns :
        /\ Done(i)
        /\ conns[i].request = PostForm(RepeatedAdminFirst)
        /\ Answered(i, NO_CONTENT)

\* C2: a 204 response carries exactly the four headers, the first three the
\* base64 of the user id, display name and roles of the authenticated user
\* in the table, the fourth the plain redirect target; a 400 or 403 response
\* carries none of them.
C2_ResponseShape ==
    \A i \in Conns : Done(i) =>
        LET c == conns[i]
            h == c.headers
        IN  /\ Answered(i, NO_CONTENT) =>
                LET u == c.vars[USERID_FIELD][1]
                IN  /\ u \in DOMAIN DummyUsersLiteral
                    /\ [k \in 1..Len(h) |-> h[k].name] =
                         <<"x-tobira-username", "x-tobira-user-display-name",
                           "x-tobira-user-roles", "x-accel-redirect">>
                    /\ B64Decode(h[1].value) = Utf8Encode(u)
                    /\ B64Decode(h[2].value) = Utf8Encode(DummyUsersLiteral[u][1])
                    /\ B64Decode(h[3].value) = Utf8Encode(DummyUsersLiteral[u][2])
                    /\ h[4].value = ACCEL_REDIRECT
            /\ (Answered(i, BAD_REQUEST) \/ Answered(i, FORBIDDEN)) => h = << >>

C2_Witness ==
    \E i \in Conns :
        /\ Done(i)
        /\ Answered(i, NO_CONTENT)
        /\ conns[i].userid = S_augustus
        /\ Len(conns[i].headers) = 4

\* C3: a request without a Content-Type, or with one that does not start with
\* the form content type, is answered 400 at once: Content-Length and the
\* body are not read, nothing is parsed or checked, nothing is printed.
C3_ContentTypeFirst ==
    \A i \in Conns :
        LET c == conns[i]
            ct == c.request.content_type
        IN  (Done(i) /\ (ct = None \/ ~StartsWith(ct[1], FORM_CONTENT_TYPE))) =>
                /\ Answered(i, BAD_REQUEST)
                /\ Written(i)
                /\ c.headers = << >>
                /\ ~c.length_read /\ ~c.body_read /\ ~c.parsed /\ ~c.login_checked
                /\ LineNumbers(i) = {}

C3_Witness ==
    \E i \in Conns :
        /\ Done(i)
        /\ conns[i].request.content_type = Some(CT_json)
        /\ conns[i].request.body = Form(S_admin, SECRET)
        /\ Answered(i, BAD_REQUEST)

\* The Content-Type values of the model that continue the literal.
SuffixedContentTypes ==
    {Some(FORM_CONTENT_TYPE \o CHARSET_SUFFIX), Some(FORM_CONTENT_TYPE \o VERSION_SUFFIX)}

\* C4 as claimed: only the exact literal is accepted, any other Content-Type
\* value, also one that continues the literal, is answered 400.
C4_OnlyExactLiteral ==
    \A i \in Conns :
        (Done(i) /\ conns[i].request.content_type # Some(FORM_CONTENT_TYPE)) =>
            Answered(i, BAD_REQUEST)

\* C4 as amended: the check is a case-sensitive prefix match.  A value that
\* continues the literal passes it like the literal itself (the handler goes
\* on to Content-Length, and answers 400 only when a field is missing); a
\* value in another case or short of the literal is answered 400 unread.
C4_PrefixMatch ==
    \A i \in Conns : Done(i) =>
        LET c == conns[i]
        IN  /\ c.request.content_type \in SuffixedContentTypes =>
                /\ c.length_read
                /\ Answered(i, BAD_REQUEST) =>
                     c.parsed /\ ~(USERID_FIELD \in DOMAIN c.vars
                                   /\ PASSWORD_FIELD \in DOMAIN c.vars)
                /\ c.request.body = Form(S_admin, SECRET) => Answered(i, NO_CONTENT)
            /\ c.request.content_type \in {Some(CT_upper), Some(CT_truncated)} =>
                Answered(i, BAD_REQUEST) /\ ~c.length_read

C4_Witness ==
    \E i \in Conns :
        /\ Done(i)
        /\ conns[i].request.content_type = Some(FORM_CONTENT_TYPE \o CHARSET_SUFFIX)
        /\ Answered(i, NO_CONTENT)

\* C5: once the body is parsed, a missing userid or password is answered 400
\* before the credential check and before any print; with both present the
\* answer is 403 or 204, never 400.
C5_FieldPresence ==
    \A i \in Conns :
        LET c == conns[i]
        IN  (Done(i) /\ c.parsed) =>
                IF USERID_FIELD \notin DOMAIN c.vars \/ PASSWORD_FIELD \notin DOMAIN c.vars
                THEN /\ Answered(i, BAD_REQUEST)
                     /\ Written(i)
                     /\ ~c.login_checked
                     /\ LineNumbers(i) = {}
                ELSE Answered(i, FORBIDDEN) \/ Answered(i, NO_CONTENT)

C5_Witness ==
    \E i \in Conns :
        /\ Done(i)
        /\ conns[i].parsed
        /\ USERID_FIELD \in DOMAIN conns[i].vars
        /\ PASSWORD_FIELD \notin DOMAIN conns[i].vars
        /\ Answered(i, BAD_REQUEST)

\* C6 as claimed: a well-formed POST of userid=u&password=p is answered 403
\* whenever u is no key of the table, whatever p is (the empty string too),
\* and whenever u is a key and p is not 'tobira' (the empty string too).
C6_RejectionIsAlways403 ==
    \A i \in Conns : Done(i) =>
        \A u \in UserIds, p \in Passwords :
            conns[i].request = PostForm(Form(u, p)) =>
                /\ u \notin DOMAIN DummyUsersLiteral => Answered(i, FORBIDDEN)
                /\ (u \in DOMAIN DummyUsersLiteral /\ p # SECRET) => Answered(i, FORBIDDEN)

\* The text each outcome is to print, from the parsed fields and the table.
ExpectedText(i) ==
    LET u == conns[i].vars[USERID_FIELD][1]
        p == conns[i].vars[PASSWORD_FIELD][1]
    IN  IF Answered(i, FORBIDDEN)
        THEN INCORRECT_LOGIN \o u \o <<58>> \o p
        ELSE SUCCESSFUL_LOGIN \o u \o <<32, 40>> \o DummyUsersLiteral[u][1]
             \o <<41, 58, 32>> \o DummyUsersLiteral[u][2]

\* C7 as claimed: every handled request prints exactly one line, whatever
\* its outcome.
C7_OneLinePerRequest ==
    \A i \in Conns : Done(i) => Cardinality(LineNumbers(i)) = 1

\* C7 as amended: a request prints if and only if its handler sends 403 or
\* 204.  It prints once: the text 'Incorrect login <userid>:<password>' with
\* 403, 'Successful login of <username> (<display name>): <roles>' with 204,
\* written as it is and ended by a line feed.  That is one line when userid
\* and password hold no line feed (with 204 always), and one line more for
\* every line feed in them; the lines are adjacent in the output.  A request
\* answered 400, or ended by an exception before the check, prints nothing.
C7_OnePrintIffCredentialsChecked ==
    \A i \in Conns : Done(i) =>
        IF Answered(i, FORBIDDEN) \/ Answered(i, NO_CONTENT)
        THEN LET ks == LineNumbers(i)
                 u == conns[i].vars[USERID_FIELD][1]
                 p == conns[i].vars[PASSWORD_FIELD][1]
             IN  /\ ks # {}
                 /\ \A a, b \in ks : \A k \in a..b : k \in ks
                 /\ \A n \in 1..Len(LinesOf(i)) : LineFeeds(LinesOf(i)[n]) = 0
                 /\ Unlines(LinesOf(i)) = ExpectedText(i)
                 /\ Cardinality(ks) = 1 + LineFeeds(u) + LineFeeds(p)
                 /\ Answered(i, NO_CONTENT) => Cardinality(ks) = 1
        ELSE /\ LineNumbers(i) = {}
             /\ conns[i].status \in {<< >>, <<BAD_REQUEST>>}

C7_Witness ==
    \E i \in Conns :
        /\ Done(i)
        /\ Answered(i, FORBIDDEN)
        /\ conns[i].request = PostForm(Form(U_two_lines, P_wrong))
        /\ Cardinality(LineNumbers(i)) = 2

\* C8 as claimed: every request, also one with a missing or non-numeric
\* Content-Length, ends with exactly one status line, 400, 403 or 204, and
\* the headers ended exactly once.  (Stated of the clients that stay
\* connected: nothing can be sent to one that has gone.)
C8_ExactlyOneResponse ==
    \A i \in Conns : (Done(i) /\ ~conns[i].closed) =>
        /\ Len(conns[i].status) = 1
        /\ conns[i].status[1] \in {BAD_REQUEST, FORBIDDEN, NO_CONTENT}
        /\ conns[i].ended = 1

\* What a client and the operator see of connection i.
Outcome(i) ==
    [ status |-> conns[i].status, headers |-> conns[i].headers,
      ended |-> conns[i].ended, error |-> conns[i].error,
      lines |-> LinesOf(i) ]

\* C9: no request changes the credential table, and the outcome of a request
\* does not depend on the requests handled before it: equal requests of
\* clients that behave alike get equal outcomes, a failed attempt locks
\* nobody out, a successful login does not make a later wrong password pass.
C9_Stateless ==
    /\ DUMMY_USERS = DummyUsersLiteral
    /\ \A i, j \in Conns :
        (Done(i) /\ Done(j) /\ i < j) =>
            /\ (conns[i].request = conns[j].request
                /\ conns[i].closed = conns[j].closed) => Outcome(i) = Outcome(j)
            /\ conns[j].request = PostForm(Form(S_admin, SECRET)) =>
                 Answered(j, NO_CONTENT)
            /\ conns[j].request = PostForm(Form(S_admin, P_wrong)) =>
                 Answered(j, FORBIDDEN)

C9_Witness ==
    \E i, j \in Conns :
        /\ i < j /\ Done(i) /\ Done(j)
        /\ conns[i].request = PostForm(Form(S_admin, P_wrong))
        /\ conns[j].request = PostForm(Form(S_admin, SECRET))
        /\ Answered(i, FORBIDDEN)
        /\ Answered(j, NO_CONTENT)

\* C10: requests are handled one after the other.  At most one handler runs
\* at a time, the output calls of a connection are never separated by those
\* of another, neither are the lines it wrote, and a handler prints before it
\* sends its status.
C10_NoInterleaving ==
    /\ Cardinality({i \in Conns : Active(i)}) <= 1
    /\ \A i, j \in Conns :
        i # j => \A a, b \in LineNumbers(i) : \A k \in LineNumbers(j) : ~(a < k /\ k < b)
    /\ \A a, b, d \in 1..Len(trace) :
        (a < b /\ b < d /\ trace[a][1] = trace[d][1]) => trace[b][1] = trace[a][1]
    /\ \A a, b \in 1..Len(trace) :
        (trace[a][1] = trace[b][1] /\ trace[a][2] = "send_response"
         /\ trace[b][2] = "print") => b < a

C10_Witness ==
    \E i, j \in Conns :
        /\ conns[i].pc = "end_headers"
        /\ Cardinality(LineNumbers(i)) = 2
        /\ conns[j].pc = "backlog"
=============================================================================
